---- MODULE Spec2Model ----
(***************************************************************************)
(* Model of luma.examples' advanced carousel:                              *)
(*   examples/hotspot/ups_battery.py  - the cached UPS telemetry reader    *)
(*   examples/carousel_adv.py         - the scrolling position generators  *)
(*                                                                         *)
(* Time is counted in ticks of half a second, so that the 1.5 s cache      *)
(* validity is the integer 3.  A Python value that may be None is a        *)
(* sequence of length 0 (None) or 1 (the object).  A dict instance is      *)
(* identified by the number of the call that built it (field id).          *)
(***************************************************************************)
EXTENDS Integers, Sequences, FiniteSets, TLC

\* ------------------------------------------------------------------------
\* Bounds of the model
\* ------------------------------------------------------------------------
MaxCalls == 3        \* read_ups_data() calls in one behaviour
MaxDt == 3           \* largest clock advance between two calls, in ticks
NumImages == 2       \* distinct register contents the peripheral may hold
MaxExtent == 5       \* largest extent given to position()
MaxStepSize == 3     \* largest step given to position()
MaxInterval == 3     \* largest interval given to pause_every()
MaxEmit == 13        \* values taken from position() in one behaviour
MaxWidth == 2        \* largest device width main() is run on
MaxRenders == 2      \* render() calls in one behaviour
MaxSeconds == 7322   \* every duration up to this one is given to format_time()

\* ------------------------------------------------------------------------
\* ups_battery.py: constants
\* ------------------------------------------------------------------------
DEVICE_BUS == 1
DEVICE_ADDR == 23                       \* 0x17
_cache_validity == 3                    \* 1.5 s, in half-second ticks

None == <<>>
Some(v) == <<v>>
TheValue(o) == o[1]

\* ------------------------------------------------------------------------
\* Integer helpers: Python's << and | on non-negative integers
\* ------------------------------------------------------------------------
RECURSIVE Pow2(_)
Pow2(n) == IF n = 0 THEN 1 ELSE 2 * Pow2(n - 1)

\* a shift that is one bit short
ShlOneShort(x, n) == x * Pow2(n - 1)

Shl(x, n) == x * Pow2(n)

RECURSIVE BitOr(_, _)
BitOr(a, b) ==
  IF a = 0 THEN b
  ELSE IF b = 0 THEN a
  ELSE (IF (a % 2 = 1) \/ (b % 2 = 1) THEN 1 ELSE 0) + 2 * BitOr(a \div 2, b \div 2)

\* ------------------------------------------------------------------------
\* The peripheral: what the registers hold.  Image k is the register file of
\* a UPS whose telemetry is Telemetry(k); every multi-byte field is stored
\* low byte first.
\* ------------------------------------------------------------------------
\* charging voltages (mV) around the 4000 mV threshold of render()
ThresholdVolts ==
  << [typec |-> 0,    micro |-> 0],
     [typec |-> 4500, micro |-> 0],
     [typec |-> 4000, micro |-> 4000],
     [typec |-> 4001, micro |-> 0],
     [typec |-> 0,    micro |-> 4001],
     [typec |-> 3999, micro |-> 4000] >>

\* images 1, 2, ... are telemetry of any kind; images 101, 102, ... carry the
\* charging voltages of ThresholdVolts
ThresholdImages == {100 + j : j \in 1..Len(ThresholdVolts)}

Telemetry(k) ==
  LET j == IF k > 100 THEN k - 100 ELSE k IN
  [ bat_voltage  |-> 3700 + 211 * j,
    charge_typec |-> IF k > 100 THEN ThresholdVolts[j].typec
                     ELSE IF k % 2 = 1 THEN 4500 ELSE 0,
    charge_micro |-> IF k > 100 THEN ThresholdVolts[j].micro
                     ELSE IF k % 3 = 0 THEN 5021 ELSE 0,
    capacity_pct |-> (37 * j + 50) % 101,
    online_time  |-> 3661 + 70000 * j,
    full_time    |-> 90 + 16777216 * (j - 1) ]

ByteOf(v, i) == (v \div Pow2(8 * i)) % 256

DeviceRegister(k, r) ==
  LET t == Telemetry(k) IN
  IF r \in 5..6 THEN ByteOf(t.bat_voltage, r - 5)
  ELSE IF r \in 7..8 THEN ByteOf(t.charge_typec, r - 7)
  ELSE IF r \in 9..10 THEN ByteOf(t.charge_micro, r - 9)
  ELSE IF r \in 19..20 THEN ByteOf(t.capacity_pct, r - 19)
  ELSE IF r \in 28..31 THEN ByteOf(t.online_time, r - 28)
  ELSE IF r \in 32..35 THEN ByteOf(t.full_time, r - 32)
  ELSE 0

\* ------------------------------------------------------------------------
\* State
\* ------------------------------------------------------------------------
VARIABLES
  SMBUS_AVAILABLE,   \* did "import smbus2" succeed
  _ups_cache,        \* None or Some(record)
  _ups_cache_time,   \* clock value stored with the cached record
  now,               \* the wall clock, time.time()
  calls,             \* number of read_ups_data() calls made so far
  ret,               \* value returned by the most recent call
  raised,            \* did the most recent call raise to its caller
  busLog,            \* bus operations attempted by the most recent call
  lastGood,          \* record built by the latest transaction that completed
  openConns,         \* connections opened and not closed
  gen,               \* position(): the suspended generator frame
  pause,             \* pause_every(): the suspended generator frame
  posEmitted,        \* every value position() has yielded
  out,               \* every value pause_every() has yielded
  applied,           \* the application of decode or format_time made
  panel              \* what the latest render() call drew

upsVars == <<SMBUS_AVAILABLE, _ups_cache, _ups_cache_time, now, calls, ret,
             raised, busLog, lastGood, openConns>>
scrollVars == <<gen, pause, posEmitted, out>>
viewVars == <<applied, panel>>
vars == <<upsVars, scrollVars, viewVars>>

\* ------------------------------------------------------------------------
\* ups_battery.py: read_ups_data()
\* ------------------------------------------------------------------------
\* a range that runs one register past its end
RangeSeqOneMore(start, end) == [i \in 1..(end + 2 - start) |-> start + i - 1]

\* range(start, end + 1) of line 57
RangeSeq(start, end) == [i \in 1..(end + 1 - start) |-> start + i - 1]

\* the six read_register_range() calls, in program order
ReadPlan ==
  << [name |-> "bat_voltage",  start |-> 5,  end |-> 6],
     [name |-> "charge_typec", start |-> 7,  end |-> 8],
     [name |-> "charge_micro", start |-> 9,  end |-> 10],
     [name |-> "capacity",     start |-> 19, end |-> 20],
     [name |-> "online_time",  start |-> 28, end |-> 31],
     [name |-> "full_time",    start |-> 32, end |-> 35] >>

RECURSIVE PlanRegisters(_)
PlanRegisters(n) ==
  IF n = 0 THEN <<>>
  ELSE PlanRegisters(n - 1) \o RangeSeq(ReadPlan[n].start, ReadPlan[n].end)

\* registers read by one complete transaction, in the order they are read
Registers == PlanRegisters(Len(ReadPlan))
NumReads == Len(Registers)

\* the bus calls of one complete transaction, in program order: SMBus(bus),
\* read_byte_data(addr, reg) for every register, close()
BusOps ==
  <<[op |-> "open", addr |-> DEVICE_BUS, reg |-> -1]>>
  \o [i \in 1..NumReads |-> [op |-> "read", addr |-> DEVICE_ADDR, reg |-> Registers[i]]]
  \o <<[op |-> "close", addr |-> DEVICE_BUS, reg |-> -1]>>
NumOps == Len(BusOps)

\* fail = n: the n-th bus call raises; fail = NoFailure: none does
NoFailure == NumOps + 1
FailPoints == 1..NoFailure

\* the bus calls one transaction makes when call number fail raises, each with
\* its outcome: ok, and for a read the byte the peripheral (image img) returned
AttemptedCalls(fail, img) ==
  [i \in 1..(IF fail = NoFailure THEN NumOps ELSE fail) |->
     [op |-> BusOps[i].op, addr |-> BusOps[i].addr, reg |-> BusOps[i].reg,
      ok |-> (i # fail),
      val |-> IF BusOps[i].op = "read" /\ i # fail
              THEN DeviceRegister(img, BusOps[i].reg) ELSE -1]]

\* the same, tabulated once for every failure point and register image
AttemptedTable ==
  [fail \in FailPoints |->
     [img \in (1..NumImages) \cup ThresholdImages |-> AttemptedCalls(fail, img)]]

Attempted(fail, img) == AttemptedTable[fail][img]

\* the byte a completed transaction's log holds for register r
LoggedByte(log, r) ==
  LET i == CHOOSE j \in 1..Len(log) : log[j].op = "read" /\ log[j].reg = r
  IN log[i].val

\* read_register_range(start, end): the bytes of registers start..end
read_register_range(log, start, end) ==
  [i \in 1..(end + 1 - start) |-> LoggedByte(log, start + i - 1)]

\* ParseData with the capacity word assembled from its high byte twice
ParseDataHighTwice(id, bat_voltage, charge_typec, charge_micro, capacity, online_time, full_time) ==
  [ id |-> id,
    capacity_pct |-> BitOr(Shl(capacity[2], 8), capacity[2]),
    online_time  |-> BitOr(BitOr(BitOr(Shl(online_time[4], 24), Shl(online_time[3], 16)),
                                 Shl(online_time[2], 8)), online_time[1]),
    full_time    |-> BitOr(BitOr(BitOr(Shl(full_time[4], 24), Shl(full_time[3], 16)),
                                 Shl(full_time[2], 8)), full_time[1]),
    bat_voltage  |-> BitOr(Shl(bat_voltage[2], 8), bat_voltage[1]),
    charge_typec |-> BitOr(Shl(charge_typec[2], 8), charge_typec[1]),
    charge_micro |-> BitOr(Shl(charge_micro[2], 8), charge_micro[1]) ]

\* the dict built from the six byte lists (Python index n is index n + 1)
ParseData(id, bat_voltage, charge_typec, charge_micro, capacity, online_time, full_time) ==
  [ id |-> id,
    capacity_pct |-> BitOr(Shl(capacity[2], 8), capacity[1]),
    online_time  |-> BitOr(BitOr(BitOr(Shl(online_time[4], 24), Shl(online_time[3], 16)),
                                 Shl(online_time[2], 8)), online_time[1]),
    full_time    |-> BitOr(BitOr(BitOr(Shl(full_time[4], 24), Shl(full_time[3], 16)),
                                 Shl(full_time[2], 8)), full_time[1]),
    bat_voltage  |-> BitOr(Shl(bat_voltage[2], 8), bat_voltage[1]),
    charge_typec |-> BitOr(Shl(charge_typec[2], 8), charge_typec[1]),
    charge_micro |-> BitOr(Shl(charge_micro[2], 8), charge_micro[1]) ]

\* lines 62-89 on the log of a transaction whose calls all succeeded
Decode(id, log) ==
  ParseData(id,
            read_register_range(log, ReadPlan[1].start, ReadPlan[1].end),
            read_register_range(log, ReadPlan[2].start, ReadPlan[2].end),
            read_register_range(log, ReadPlan[3].start, ReadPlan[3].end),
            read_register_range(log, ReadPlan[4].start, ReadPlan[4].end),
            read_register_range(log, ReadPlan[5].start, ReadPlan[5].end),
            read_register_range(log, ReadPlan[6].start, ReadPlan[6].end))

\* the cache test with the comparison turned round
CacheValidInverted(cache, cache_time, current_time) ==
  cache # None /\ (current_time - cache_time) > _cache_validity

\* the cache test with <= for <
CacheValidInclusive(cache, cache_time, current_time) ==
  cache # None /\ (current_time - cache_time) <= _cache_validity

\* the cache test of line 43
CacheValid(cache, cache_time, current_time) ==
  cache # None /\ (current_time - cache_time) < _cache_validity

\* connections a transaction leaves open: the open succeeded and close() was
\* not reached (the except clause does not close).  A close() that itself
\* raises may or may not have released the descriptor: leak chooses.
LeftOpen(fail, leak) ==
  IF fail = 1 THEN 0
  ELSE IF fail = NoFailure THEN 0
  ELSE IF fail = NumOps THEN (IF leak THEN 1 ELSE 0)
  ELSE 1

\* a failure path that stamps the cache with the time of the failed call
FailureTimestampRefreshed(cache_time, current_time) == current_time

\* the cache timestamp after a call whose transaction raised: line 93 is not
\* reached and the except clause stores nothing
FailureTimestamp(cache_time, current_time) == cache_time

\* an except clause that returns None instead of the cache
ExceptClauseNone(cache) == [raises |-> FALSE, value |-> None]

\* an except clause that re-raises
ExceptClauseRaise(cache) == [raises |-> TRUE, value |-> cache]

\* the except clause of lines 97-99: swallows the exception, returns the cache
ExceptClause(cache) == [raises |-> FALSE, value |-> cache]

\* the guard of line 46 left out
DriverGuardMissing(available) == TRUE

\* does the guard of line 46 let the call go on to the bus
DriverGuard(available) == available

read_ups_data(dt, fail, img, leak) ==
  /\ calls < MaxCalls
  /\ LET current_time == now + dt
         n == calls + 1
     IN
     /\ now' = current_time
     /\ calls' = n
     /\ UNCHANGED SMBUS_AVAILABLE
     /\ IF CacheValid(_ups_cache, _ups_cache_time, current_time)
        THEN /\ ret' = _ups_cache
             /\ raised' = FALSE
             /\ busLog' = <<>>
             /\ UNCHANGED <<_ups_cache, _ups_cache_time, openConns, lastGood>>
        ELSE IF ~DriverGuard(SMBUS_AVAILABLE)
        THEN /\ ret' = None
             /\ raised' = FALSE
             /\ busLog' = <<>>
             /\ UNCHANGED <<_ups_cache, _ups_cache_time, openConns, lastGood>>
        ELSE LET log == Attempted(fail, img) IN
             /\ busLog' = log
             /\ openConns' = openConns + LeftOpen(fail, leak)
             /\ IF fail = NoFailure
                THEN LET data == Decode(n, log) IN
                     /\ _ups_cache' = Some(data)
                     /\ _ups_cache_time' = current_time
                     /\ ret' = Some(data)
                     /\ raised' = FALSE
                     /\ lastGood' = Some(data)
                ELSE LET handler == ExceptClause(_ups_cache) IN
                     /\ ret' = (IF handler.raises THEN None ELSE handler.value)
                     /\ raised' = handler.raises
                     /\ _ups_cache_time' = FailureTimestamp(_ups_cache_time, current_time)
                     /\ UNCHANGED <<_ups_cache, lastGood>>
  /\ UNCHANGED <<scrollVars, applied>>

\* ------------------------------------------------------------------------
\* carousel_adv.py: position() and pause_every()
\* ------------------------------------------------------------------------
\* Python's range(start, stop, step) as the sequence of its values
RECURSIVE PyRange(_, _, _)
PyRange(start, stop, step) ==
  IF (step > 0 /\ start < stop) \/ (step < 0 /\ start > stop)
  THEN <<start>> \o PyRange(start + step, stop, step)
  ELSE <<>>

\* forwards running one step past the extent
ForwardsOvershoot(max, step) == PyRange(0, max + step, step)

Forwards(max, step) == PyRange(0, max, step)
\* backwards running down to 0 inclusive
BackwardsToZero(max, step) == PyRange(max, -1, -step)

Backwards(max, step) == PyRange(max, 0, -step)

\* the frame of position(max, step) before its first next(): the two ranges
\* are built, no loop has started
PositionFrame(max, step) ==
  [ max |-> max, step |-> step,
    forwards |-> Forwards(max, step),
    backwards |-> Backwards(max, step),
    loop |-> "forwards",     \* the for loop the frame is suspended in
    k |-> 0 ]                \* values that loop has yielded so far

\* position() without its "while True": one sweep there and back, then the
\* generator returns and next() raises StopIteration
PositionNextOneSweep(g) ==
  IF g.loop = "forwards"
  THEN IF g.k < Len(g.forwards)
       THEN [frame |-> [g EXCEPT !.k = g.k + 1], value |-> g.forwards[g.k + 1],
             stop |-> FALSE]
       ELSE [frame |-> [g EXCEPT !.loop = "backwards", !.k = 1], value |-> g.backwards[1],
             stop |-> FALSE]
  ELSE IF g.k < Len(g.backwards)
       THEN [frame |-> [g EXCEPT !.k = g.k + 1], value |-> g.backwards[g.k + 1],
             stop |-> FALSE]
       ELSE [frame |-> g, value |-> 0, stop |-> TRUE]

\* next() on position(): the frame it is left in, the value it yields, and
\* whether it raised StopIteration instead (it has no return, so never)
\* (both ranges are non-empty for max > 0 and step >= 1)
PositionNext(g) ==
  IF g.loop = "forwards"
  THEN IF g.k < Len(g.forwards)
       THEN [frame |-> [g EXCEPT !.k = g.k + 1], value |-> g.forwards[g.k + 1],
             stop |-> FALSE]
       ELSE [frame |-> [g EXCEPT !.loop = "backwards", !.k = 1], value |-> g.backwards[1],
             stop |-> FALSE]
  ELSE IF g.k < Len(g.backwards)
       THEN [frame |-> [g EXCEPT !.k = g.k + 1], value |-> g.backwards[g.k + 1],
             stop |-> FALSE]
       ELSE [frame |-> [g EXCEPT !.loop = "forwards", !.k = 1], value |-> g.forwards[1],
             stop |-> FALSE]

\* range(20) of line 49
PauseRepeats == 20

\* a dwell that does not pause at position 0
DwellNotAtZero(interval, x) == IF x # 0 /\ x % interval = 0 THEN PauseRepeats ELSE 1

\* a dwell of one yield and then 20 repeats
DwellOneExtra(interval, x) == IF x % interval = 0 THEN PauseRepeats + 1 ELSE 1

\* how many times pause_every() yields a value x taken from the generator
Dwell(interval, x) == IF x % interval = 0 THEN PauseRepeats ELSE 1

\* main, line 106: the two generator objects are created; neither body has run
MakeScroll(m, s, interval) ==
  /\ gen = None
  /\ gen' = Some(PositionFrame(m, s))
  /\ pause' = Some([interval |-> interval, x |-> 0, left |-> 0, done |-> FALSE])
  /\ UNCHANGED <<posEmitted, out>>
  /\ UNCHANGED <<upsVars, viewVars>>

\* next() on pause_every(), resumed inside "for _ in range(20)": yields x again
PauseRepeat ==
  /\ pause # None
  /\ ~TheValue(pause).done
  /\ TheValue(pause).left > 0
  /\ out' = Append(out, TheValue(pause).x)
  /\ pause' = Some([TheValue(pause) EXCEPT !.left = @ - 1])
  /\ UNCHANGED <<gen, posEmitted>>
  /\ UNCHANGED <<upsVars, viewVars>>

\* next() on pause_every(), at the top of "while True": takes the next value
\* from the wrapped generator and yields it for the first time; a
\* StopIteration from the wrapped generator ends pause_every() too (lines
\* 53-54)
PauseFetch ==
  /\ pause # None
  /\ ~TheValue(pause).done
  /\ TheValue(pause).left = 0
  /\ Len(posEmitted) < MaxEmit
  /\ LET r == PositionNext(TheValue(gen))
         x == r.value
     IN
     IF r.stop
     THEN /\ pause' = Some([TheValue(pause) EXCEPT !.done = TRUE])
          /\ UNCHANGED <<gen, posEmitted, out>>
     ELSE /\ gen' = Some(r.frame)
          /\ posEmitted' = Append(posEmitted, x)
          /\ out' = Append(out, x)
          /\ pause' = Some([TheValue(pause) EXCEPT !.x = x,
                               !.left = Dwell(TheValue(pause).interval, x) - 1])
  /\ UNCHANGED <<upsVars, viewVars>>

\* one iteration of main's for loop: next() on the pause_every() generator
NextFrame == PauseRepeat \/ PauseFetch

\* len(widgets), line 94, and scroll_speed, line 105
NumWidgets == 9
scroll_speed == 2

\* width of the virtual canvas, line 101
CanvasWidth(widget_width) == widget_width * NumWidgets

\* an extent that runs to the right edge of the canvas
ScrollExtentToEdge(widget_width) == widget_width * NumWidgets

\* the extent main gives to position(), line 106
ScrollExtent(widget_width) == widget_width * (NumWidgets - 1)

\* main on a device of the given width: the widgets are laid side by side and
\* the scroll generators of line 106 are created
main(widget_width) ==
  MakeScroll(ScrollExtent(widget_width), scroll_speed, widget_width)

\* ------------------------------------------------------------------------
\* ups_battery.py: the register decode on any register contents
\* ------------------------------------------------------------------------
\* byte values tried in the registers; the top byte of a 32-bit field stays
\* below 128 so that the decoded value fits the checker's integers
ByteSamples == {0, 1, 18, 52, 127, 128, 255}
TopByteSamples == {0, 1, 18, 52, 127}

\* a register file whose six fields hold the bytes b0..b3 in different orders
RegisterFile(b0, b1, b2, b3) ==
  [r \in 0..35 |->
     IF r \in {5, 8, 9, 20, 28, 34} THEN b0
     ELSE IF r \in {6, 7, 19, 29, 33} THEN b1
     ELSE IF r \in {10, 30, 32} THEN b2
     ELSE IF r \in {31, 35} THEN b3
     ELSE 0]

\* the bus calls of a transaction on register file regs in which none raises
CompletedCalls(regs) ==
  [i \in 1..NumOps |->
     [op |-> BusOps[i].op, addr |-> BusOps[i].addr, reg |-> BusOps[i].reg,
      ok |-> TRUE,
      val |-> IF BusOps[i].op = "read" THEN regs[BusOps[i].reg] ELSE -1]]

\* lines 62-89 run on the register file made of b0..b3
DecodeRegisters(b0, b1, b2, b3) ==
  /\ applied = None
  /\ LET regs == RegisterFile(b0, b1, b2, b3) IN
     applied' = Some([fn |-> "decode", arg |-> regs,
                      result |-> Decode(0, CompletedCalls(regs))])
  /\ UNCHANGED <<upsVars, scrollVars, panel>>

\* ------------------------------------------------------------------------
\* ups_battery.py: format_time()
\* ------------------------------------------------------------------------
\* a Python str is the sequence of its characters
DigitChars == <<"0", "1", "2", "3", "4", "5", "6", "7", "8", "9">>

\* str(n) of a non-negative integer, as an f-string formats it
RECURSIVE PyStr(_)
PyStr(n) ==
  IF n < 10 THEN <<DigitChars[n + 1]>>
  ELSE PyStr(n \div 10) \o <<DigitChars[(n % 10) + 1]>>

\* format_time with the hours form taking the minutes of the whole duration
format_time_total_minutes(seconds) ==
  IF seconds < 60
  THEN PyStr(seconds) \o <<"s">>
  ELSE IF seconds < 3600
  THEN PyStr(seconds \div 60) \o <<"m">>
  ELSE PyStr(seconds \div 3600) \o <<"h", " ">> \o PyStr(seconds \div 60) \o <<"m">>

format_time(seconds) ==
  IF seconds < 60
  THEN PyStr(seconds) \o <<"s">>
  ELSE IF seconds < 3600
  THEN LET mins == seconds \div 60 IN PyStr(mins) \o <<"m">>
  ELSE LET hours == seconds \div 3600
           mins == (seconds % 3600) \div 60
       IN PyStr(hours) \o <<"h", " ">> \o PyStr(mins) \o <<"m">>

\* the durations format_time is tried on: every one up to MaxSeconds and some
\* long ones
SecondsSamples == 0..MaxSeconds \cup {35999, 36000, 86399, 86400, 360000, 2147483647}

FormatTime(n) ==
  /\ applied = None
  /\ applied' = Some([fn |-> "format_time", arg |-> n, result |-> format_time(n)])
  /\ UNCHANGED <<upsVars, scrollVars, panel>>

\* ------------------------------------------------------------------------
\* ups_battery.py: render()
\* ------------------------------------------------------------------------
\* a charging test that takes 4000 mV itself for charging
is_charging_inclusive(data) == data.charge_typec >= 4000 \/ data.charge_micro >= 4000

\* line 130
is_charging(data) == data.charge_typec > 4000 \/ data.charge_micro > 4000

\* what render() draws for the value read_ups_data() returned: the status
\* words, whether line 130 ran, and the left-hand labels of the text rows (the
\* runtime estimate, a float computation, is left out)
RenderPanel(data) ==
  IF data = None
  THEN [ status |-> "UPS not detected", classified |-> FALSE,
         labels |-> <<"Status:">> ]
  ELSE IF is_charging(TheValue(data))
  THEN [ status |-> "Charging", classified |-> TRUE,
         labels |-> <<"Charge:", "Status:", "Charged:">> ]
  ELSE [ status |-> "On Batt", classified |-> TRUE,
         labels |-> <<"Charge:", "Status:", "Runtime:">> ]

\* render(draw, width, height): reads the telemetry, then draws the panel
render(dt, fail, img, leak) ==
  /\ calls < MaxRenders
  /\ read_ups_data(dt, fail, img, leak)
  /\ panel' = Some(RenderPanel(ret'))

\* ------------------------------------------------------------------------
\* Initial state and specifications
\* ------------------------------------------------------------------------
Init ==
  /\ SMBUS_AVAILABLE \in BOOLEAN
  /\ _ups_cache = None
  /\ _ups_cache_time = 0
  /\ now = 0
  /\ calls = 0
  /\ ret = None
  /\ raised = FALSE
  /\ busLog = <<>>
  /\ lastGood = None
  /\ openConns = 0
  /\ gen = None
  /\ pause = None
  /\ posEmitted = <<>>
  /\ out = <<>>
  /\ applied = None
  /\ panel = None

\* a call at any clock advance, with any outcome of the bus: which bus call
\* raises, what the registers hold, what a raising close() leaves behind
Next ==
  \E dt \in 0..MaxDt, fail \in FailPoints, img \in 1..NumImages :
    \E leak \in (IF fail = NumOps THEN BOOLEAN ELSE {FALSE}) :
      read_ups_data(dt, fail, img, leak) /\ UNCHANGED panel

Spec == Init /\ [][Next]_vars

NextScroll ==
  \/ \E m \in 1..MaxExtent, s \in 1..MaxStepSize, interval \in 1..MaxInterval :
       MakeScroll(m, s, interval)
  \/ NextFrame

SpecScroll == Init /\ [][NextScroll]_vars

\* main's for loop asks for the next position again and again
SpecScrollFair == SpecScroll /\ WF_vars(NextFrame)

NextPure ==
  \/ \E b0 \in ByteSamples, b1 \in ByteSamples, b2 \in ByteSamples, b3 \in TopByteSamples :
       DecodeRegisters(b0, b1, b2, b3)
  \/ \E n \in SecondsSamples : FormatTime(n)

SpecPure == Init /\ [][NextPure]_vars

\* main on a device of any width up to MaxWidth, then its frame loop
NextMain ==
  \/ \E widget_width \in 1..MaxWidth : main(widget_width)
  \/ NextFrame

SpecMain == Init /\ [][NextMain]_vars

\* render() at any clock advance, with any outcome of the bus, on a UPS whose
\* charging voltages are around the threshold
NextRender ==
  \E dt \in 0..MaxDt, fail \in FailPoints, img \in ThresholdImages :
    \E leak \in (IF fail = NumOps THEN BOOLEAN ELSE {FALSE}) :
      render(dt, fail, img, leak)

SpecRender == Init /\ [][NextRender]_vars

\* ------------------------------------------------------------------------
\* Properties of read_ups_data()
\* ------------------------------------------------------------------------
IsCall == calls' = calls + 1

\* the most recent call went to the bus and one of its bus calls raised
Failed(log) == log # <<>> /\ ~log[Len(log)].ok

\* the most recent call went to the bus and every bus call succeeded,
\* close() included
Completed(log) == log # <<>> /\ log[Len(log)].ok /\ log[Len(log)].op = "close"

ReadsOk(log) == Cardinality({i \in 1..Len(log) : log[i].op = "read" /\ log[i].ok})

\* C1 (as stated): with the driver available, whenever two calls are made less
\* than 1.5 seconds apart, the second returns the identical record instance the
\* first returned and performs no bus transaction.
C1_AnyTwoCalls ==
  [][ (IsCall /\ calls >= 1 /\ SMBUS_AVAILABLE /\ now' - now < 3)
        => (ret' = ret /\ busLog' = <<>>) ]_vars

\* C1 (amended): with the driver available, whenever two consecutive calls are
\* made less than 1.5 seconds apart and the first either completed a bus
\* transaction or was served from a cache that is still younger than 1.5
\* seconds at the second call, the second returns the identical record instance
\* the first returned and performs no bus transaction.
C1_AfterFreshRecord ==
  [][ (/\ IsCall /\ calls >= 1 /\ SMBUS_AVAILABLE /\ now' - now < 3
       /\ \/ Completed(busLog)
          \/ (busLog = <<>> /\ ret # None /\ now' - _ups_cache_time < 3))
        => (ret' = ret /\ ret' # None /\ busLog' = <<>>) ]_vars

\* a call served the record that the call right before it had just read
C1_Witness ==
  /\ SMBUS_AVAILABLE /\ calls >= 2 /\ busLog = <<>> /\ ret # None
  /\ TheValue(ret).id = calls - 1
  /\ now - _ups_cache_time < 3

\* C2: a call made while a record is cached and (call time - cache timestamp)
\* is strictly below 1.5 s returns the cached record, touches no bus and leaves
\* cache and timestamp unchanged; a call made with the driver available and
\* no cached record, or one aged 1.5 s or more, attempts a bus transaction.
C2_CachePolicy ==
  [][ IsCall =>
        /\ (_ups_cache # None /\ now' - _ups_cache_time < 3)
             => /\ ret' = _ups_cache
                /\ busLog' = <<>>
                /\ _ups_cache' = _ups_cache
                /\ _ups_cache_time' = _ups_cache_time
        /\ (SMBUS_AVAILABLE /\ (_ups_cache = None \/ now' - _ups_cache_time >= 3))
             => /\ busLog' # <<>>
                /\ busLog'[1].op = "open" ]_vars

\* a transaction was attempted on a cached record aged exactly 1.5 s
C2_Witness ==
  /\ _ups_cache # None /\ busLog # <<>> /\ Failed(busLog)
  /\ now - _ups_cache_time = 3

\* C3: a call whose bus transaction fails at any point raises nothing and
\* returns the record cached before the call, or None when there was none.
C3_FailureFallsBack ==
  [][ (IsCall /\ Failed(busLog')) => (raised' = FALSE /\ ret' = _ups_cache) ]_vars

\* a transaction failed after an earlier call had filled the cache, and the
\* stale record came back
C3_Witness ==
  /\ Failed(busLog) /\ ret # None /\ TheValue(ret).id < calls /\ ~raised
  /\ ReadsOk(busLog) > 0

\* C4: the value a call returns is None exactly when no bus transaction has
\* ever completed, and otherwise the record built by the latest completed
\* transaction; once a record has been returned no later call returns None.
C4_LatestRecord ==
  /\ [](calls >= 1 => (ret = lastGood /\ (ret = None <=> lastGood = None)))
  /\ [][ret # None => ret' # None]_vars

\* the record the second call built comes back from a third call whose
\* transaction failed
C4_Witness ==
  /\ calls >= 3 /\ Failed(busLog) /\ ret # None /\ TheValue(ret).id = 2

\* C5: without the bus driver every call returns None, attempts no bus
\* transaction, and the cache stays empty.
C5_NoDriver ==
  ~SMBUS_AVAILABLE =>
    (ret = None /\ busLog = <<>> /\ _ups_cache = None /\ openConns = 0)

\* two calls without the driver, the second 1.5 s or more after start
C5_Witness == ~SMBUS_AVAILABLE /\ calls >= 2 /\ now >= 3 /\ ret = None

\* little-endian value of registers start..end as a transaction's log has them
RECURSIVE LittleEndian(_, _, _)
LittleEndian(log, start, end) ==
  IF start > end THEN 0
  ELSE LoggedByte(log, start) + 256 * LittleEndian(log, start + 1, end)

FieldsFrom(r, log) ==
  /\ r.bat_voltage = LittleEndian(log, 5, 6)
  /\ r.charge_typec = LittleEndian(log, 7, 8)
  /\ r.charge_micro = LittleEndian(log, 9, 10)
  /\ r.capacity_pct = LittleEndian(log, 19, 20)
  /\ r.online_time = LittleEndian(log, 28, 31)
  /\ r.full_time = LittleEndian(log, 32, 35)

\* the cache is one slot; record and timestamp change only together, only in
\* a call whose n register reads and all other bus calls succeeded, and the
\* new record's six fields are the bytes of that call; a call whose transaction
\* fails changes neither; a record handed to the caller is the cached one
AtomicCacheUpdate(n) ==
  /\ Len(_ups_cache') <= 1
  /\ (_ups_cache' # _ups_cache \/ _ups_cache_time' # _ups_cache_time)
       => /\ _ups_cache' # None
          /\ _ups_cache' # _ups_cache
          /\ _ups_cache_time' = now'
          /\ Completed(busLog')
          /\ ReadsOk(busLog') = n
          /\ FieldsFrom(TheValue(_ups_cache'), busLog')
  /\ (IsCall /\ Failed(busLog'))
       => (_ups_cache' = _ups_cache /\ _ups_cache_time' = _ups_cache_time)
  /\ (IsCall /\ ret' # None) => ret' = _ups_cache'

\* C6 (as stated): the cache is never partially updated; record and timestamp
\* are replaced together and only by a transaction in which all 14 register
\* reads succeeded.
C6_FourteenReads == [][AtomicCacheUpdate(14)]_vars

\* C6 (amended): the same, the transaction having 16 register reads
\* (registers 5-10, 19-20, 28-35).
C6_SixteenReads == [][AtomicCacheUpdate(16)]_vars

\* a failure after some reads, following a call that replaced an older record
C6_Witness ==
  /\ _ups_cache # None /\ TheValue(_ups_cache).id = 2 /\ calls = 3
  /\ Failed(busLog) /\ ReadsOk(busLog) >= 8

\* C7: every connection a call opens is closed before the call returns, so
\* no connection is open after any sequence of calls.
C7_NoOpenConnection == openConns = 0

\* ------------------------------------------------------------------------
\* Properties of position() and pause_every()
\* ------------------------------------------------------------------------
\* C8: every value position(m, s) emits lies in [0, m].
C8_PositionInRange ==
  gen # None =>
    \A i \in 1..Len(posEmitted) :
      posEmitted[i] >= 0 /\ posEmitted[i] <= TheValue(gen).max

\* the sweep reached the extent and came back to 0
C8_Witness ==
  /\ gen # None
  /\ \E i, j \in 1..Len(posEmitted) :
       i < j /\ posEmitted[i] = TheValue(gen).max /\ posEmitted[j] = 0

Periodic(seq, p) == \A k \in 1..Len(seq) : k + p <= Len(seq) => seq[k] = seq[k + p]

\* C9 (as stated): the sequence position(m, s) emits is periodic with period
\* 2 * (m div s).
C9_PeriodFloor ==
  gen # None =>
    Periodic(posEmitted, 2 * (TheValue(gen).max \div TheValue(gen).step))

\* C9 (amended): the sequence position(m, s) emits is periodic with period
\* 2 * ceiling(m / s), which is 2 * (m div s) when s divides m.
C9_PeriodCeiling ==
  gen # None =>
    LET m == TheValue(gen).max
        s == TheValue(gen).step
    IN Periodic(posEmitted, 2 * ((m + s - 1) \div s))

\* more than a full period was emitted for a step that does not divide the
\* extent
C9_Witness ==
  /\ gen # None
  /\ TheValue(gen).max % TheValue(gen).step # 0
  /\ TheValue(gen).max > TheValue(gen).step
  /\ Len(posEmitted) > 2 * ((TheValue(gen).max + TheValue(gen).step - 1) \div TheValue(gen).step)

Copies(x, n) == [i \in 1..n |-> x]

RECURSIVE Expand(_, _)
Expand(seq, interval) ==
  IF seq = <<>> THEN <<>>
  ELSE Expand(SubSeq(seq, 1, Len(seq) - 1), interval)
       \o Copies(seq[Len(seq)], IF seq[Len(seq)] % interval = 0 THEN 20 ELSE 1)

IsPrefix(a, b) == Len(a) <= Len(b) /\ SubSeq(b, 1, Len(a)) = a

\* C10: pause_every(interval, g) emits, for each x taken from g in order, 20
\* consecutive copies when x is a multiple of interval (0 included) and one
\* copy otherwise, nothing else, and takes the next value only when the
\* copies of the previous one are all out.
C10_DwellExpansion ==
  pause # None =>
    LET iv == TheValue(pause).interval IN
    /\ IsPrefix(out, Expand(posEmitted, iv))
    /\ posEmitted # <<>> =>
         Len(out) > Len(Expand(SubSeq(posEmitted, 1, Len(posEmitted) - 1), iv))
    /\ TheValue(pause).left = 0 => out = Expand(posEmitted, iv)

\* the output holds a dwell at 0, a dwell at a non-zero multiple and a value
\* passed through singly
C10_Witness ==
  /\ pause # None
  /\ TheValue(pause).left = 0
  /\ \E i, j \in 1..Len(posEmitted) :
       /\ posEmitted[i] # 0 /\ posEmitted[i] % TheValue(pause).interval = 0
       /\ posEmitted[j] % TheValue(pause).interval # 0
  /\ Len(out) > 41

\* number of equal values at the end of a sequence
RECURSIVE TrailingRun(_)
TrailingRun(seq) ==
  IF Len(seq) <= 1 THEN Len(seq)
  ELSE IF seq[Len(seq) - 1] = seq[Len(seq)]
       THEN 1 + TrailingRun(SubSeq(seq, 1, Len(seq) - 1))
       ELSE 1

\* pause_every() advances: it takes the next value from position() after
\* having emitted a multiple of the interval
AdvanceAfterDwell ==
  /\ pause # None
  /\ posEmitted # <<>>
  /\ Len(posEmitted') = Len(posEmitted) + 1
  /\ posEmitted[Len(posEmitted)] % TheValue(pause).interval = 0

\* C11 (as stated): a position that is a multiple of the interval is emitted
\* 21 times in a row (once plus 20 repeats) before the next position appears.
C11_TwentyOneInARow ==
  [][ AdvanceAfterDwell =>
        (out[Len(out)] = posEmitted[Len(posEmitted)] /\ TrailingRun(out) = 21) ]_vars

\* C11 (amended): a position that is a multiple of the interval is emitted 20
\* times in a row (once plus 19 repeats) before the next position appears.
C11_TwentyInARow ==
  [][ AdvanceAfterDwell =>
        (out[Len(out)] = posEmitted[Len(posEmitted)] /\ TrailingRun(out) = 20) ]_vars

\* the sequence moved on from a dwell at a non-zero multiple of the interval
C11_Witness ==
  /\ pause # None
  /\ Len(posEmitted) >= 3
  /\ LET x == posEmitted[Len(posEmitted) - 1] IN
       /\ x # 0 /\ x % TheValue(pause).interval = 0
       /\ Len(out) > 20
       /\ out[Len(out)] = posEmitted[Len(posEmitted)]
       /\ out[Len(out) - 1] = x
       /\ out[Len(out)] % TheValue(pause).interval # 0

\* ------------------------------------------------------------------------
\* Properties of the register decode and of format_time()
\* ------------------------------------------------------------------------
IsApplied(fn) == applied # None /\ TheValue(applied).fn = fn

\* C12: each field of the decoded record is the little-endian unsigned value
\* of its own registers: bat_voltage 5-6, charge_typec 7-8, charge_micro 9-10,
\* capacity_pct 19-20, online_time 28-31, full_time 32-35; low 0x34 and high
\* 0x12 decode to 0x1234.
C12_LittleEndianFields ==
  IsApplied("decode") =>
    LET regs == TheValue(applied).arg
        data == TheValue(applied).result
    IN
    /\ data.bat_voltage = regs[5] + 256 * regs[6]
    /\ data.charge_typec = regs[7] + 256 * regs[8]
    /\ data.charge_micro = regs[9] + 256 * regs[10]
    /\ data.capacity_pct = regs[19] + 256 * regs[20]
    /\ data.online_time =
         regs[28] + 256 * regs[29] + 65536 * regs[30] + 16777216 * regs[31]
    /\ data.full_time =
         regs[32] + 256 * regs[33] + 65536 * regs[34] + 16777216 * regs[35]
    /\ (regs[5] = 52 /\ regs[6] = 18) => data.bat_voltage = 4660

\* registers 5-6 held 0x34, 0x12 and the other fields held other bytes
C12_Witness ==
  /\ IsApplied("decode")
  /\ LET regs == TheValue(applied).arg
         data == TheValue(applied).result
     IN /\ regs[5] = 52 /\ regs[6] = 18 /\ regs[10] = 255 /\ regs[31] = 127
        /\ data.bat_voltage = 4660
        /\ data.online_time > 2130706432

DigitValue(c) ==
  CASE c = "0" -> 0 [] c = "1" -> 1 [] c = "2" -> 2 [] c = "3" -> 3
    [] c = "4" -> 4 [] c = "5" -> 5 [] c = "6" -> 6 [] c = "7" -> 7
    [] c = "8" -> 8 [] c = "9" -> 9 [] OTHER -> -1

\* is text the decimal numeral of n, without sign or leading zeros
RECURSIVE IsNumeralOf(_, _)
IsNumeralOf(text, n) ==
  /\ Len(text) >= 1
  /\ DigitValue(text[Len(text)]) = n % 10
  /\ IF n < 10 THEN Len(text) = 1
     ELSE IsNumeralOf(SubSeq(text, 1, Len(text) - 1), n \div 10)

\* C13: format_time(n) is "<n>s" for n < 60, "<n div 60>m" for 60 <= n < 3600
\* and "<n div 3600>h <(n mod 3600) div 60>m" for n >= 3600, the minutes of
\* the last form in 0..59; format_time(0) = "0s", format_time(45) = "45s",
\* format_time(90) = "1m", format_time(3661) = "1h 1m".
C13_FormatTime ==
  IsApplied("format_time") =>
    LET n == TheValue(applied).arg
        text == TheValue(applied).result
        last == text[Len(text)]
        body == SubSeq(text, 1, Len(text) - 1)
    IN
    /\ n < 60 => (last = "s" /\ IsNumeralOf(body, n))
    /\ (n >= 60 /\ n < 3600) => (last = "m" /\ IsNumeralOf(body, n \div 60))
    /\ n >= 3600 =>
         /\ last = "m"
         /\ \E k \in 2..(Len(body) - 2) :
              /\ body[k] = "h" /\ body[k + 1] = " "
              /\ IsNumeralOf(SubSeq(body, 1, k - 1), n \div 3600)
              /\ \E mins \in 0..59 :
                   /\ mins = (n % 3600) \div 60
                   /\ IsNumeralOf(SubSeq(body, k + 2, Len(body)), mins)
    /\ n = 0 => text = <<"0", "s">>
    /\ n = 45 => text = <<"4", "5", "s">>
    /\ n = 90 => text = <<"1", "m">>
    /\ n = 3661 => text = <<"1", "h", " ", "1", "m">>

\* a duration of more than two hours with minutes left over was formatted
C13_Witness ==
  /\ IsApplied("format_time")
  /\ TheValue(applied).arg = 7322
  /\ TheValue(applied).result = <<"2", "h", " ", "2", "m">>

\* ------------------------------------------------------------------------
\* Properties of render()
\* ------------------------------------------------------------------------
\* C14: render classifies a record as charging exactly when the Type-C or the
\* micro-USB charging voltage is strictly above 4000 mV and as on-battery
\* otherwise (4000 itself included); Type-C 4500 / micro 0 is charging, both 0
\* is on-battery; without a record it shows "UPS not detected" and classifies
\* nothing.
C14_ChargingClassification ==
  panel # None =>
    LET p == TheValue(panel) IN
    /\ ret = None =>
         (p.status = "UPS not detected" /\ ~p.classified)
    /\ ret # None =>
         LET typec == TheValue(ret).charge_typec
             micro == TheValue(ret).charge_micro
         IN
         /\ p.classified
         /\ p.status \in {"Charging", "On Batt"}
         /\ p.status = "Charging" <=> (typec > 4000 \/ micro > 4000)
         /\ (typec <= 4000 /\ micro <= 4000) => p.status = "On Batt"
         /\ (typec = 4500 /\ micro = 0) => p.status = "Charging"
         /\ (typec = 0 /\ micro = 0) => p.status = "On Batt"

\* a record with both voltages at exactly 4000 mV was drawn as on-battery
C14_Witness ==
  /\ panel # None /\ ret # None
  /\ TheValue(ret).charge_typec = 4000 /\ TheValue(ret).charge_micro = 4000
  /\ TheValue(panel).status = "On Batt"

\* ------------------------------------------------------------------------
\* Properties of main's scroll
\* ------------------------------------------------------------------------
\* seq holds n copies of x in a row
HasRun(seq, x, n) ==
  \E k \in 1..Len(seq) :
    k + n - 1 <= Len(seq) /\ \A t \in 0..(n - 1) : seq[k + t] = x

\* a and b are two consecutive visits of position() to 0
ConsecutiveZeros(a, b) ==
  /\ a < b /\ posEmitted[a] = 0 /\ posEmitted[b] = 0
  /\ \A j \in (a + 1)..(b - 1) : posEmitted[j] # 0

\* C15: in main's configuration (9 widgets of width W, extent 8W, step 2,
\* interval W), for every widget index i in 0..8 the position i*W is emitted
\* between any two consecutive visits to position 0, and dwelt on for 20
\* frames.
C15_PauseAtEveryWidget ==
  pause # None =>
    LET W == TheValue(pause).interval IN
    \A a, b \in 1..Len(posEmitted) :
      ConsecutiveZeros(a, b) =>
        \A i \in 0..8 :
          /\ \E j \in a..b : posEmitted[j] = i * W
          /\ HasRun(out, i * W, 20)

\* C16: every position x main hands to the viewport satisfies 0 <= x and
\* x + W <= 9 * W: the visible window lies inside the virtual canvas.
C16_WindowInsideCanvas ==
  pause # None =>
    LET W == TheValue(pause).interval IN
    \A k \in 1..Len(out) : 0 <= out[k] /\ out[k] + W <= 9 * W

\* the window reached the right edge of the canvas
C16_Witness ==
  /\ pause # None
  /\ \E k \in 1..Len(out) : out[k] + TheValue(pause).interval = 9 * TheValue(pause).interval
  /\ \E k \in 1..Len(out) : out[k] = 0

\* ------------------------------------------------------------------------
\* Properties of the bus traffic, of failing reads and of the scroll sequence
\* ------------------------------------------------------------------------
IsRead(e) == e.op = "read"
IsOpen(e) == e.op = "open"

ReadRegs(log) == LET reads == SelectSeq(log, IsRead) IN [i \in 1..Len(reads) |-> reads[i].reg]

\* one call: at most one open, of bus 1; nothing but open, byte reads and
\* close; reads of device 0x17 only, at 5,6,7,8,9,10,19,20,28,...,35 in that
\* order, each at most once; n reads when the transaction completes
BusDiscipline(n) ==
  /\ Len(SelectSeq(busLog, IsOpen)) <= 1
  /\ \A i \in 1..Len(busLog) :
       /\ busLog[i].op \in {"open", "read", "close"}
       /\ busLog[i].op = "open" => busLog[i].addr = 1
       /\ busLog[i].op = "read" =>
            /\ busLog[i].addr = 23
            /\ busLog[i].reg \in (5..10) \cup (19..20) \cup (28..35)
  /\ IsPrefix(ReadRegs(busLog), <<5, 6, 7, 8, 9, 10, 19, 20, 28, 29, 30, 31, 32, 33, 34, 35>>)
  /\ Completed(busLog) => Len(ReadRegs(busLog)) = n
  /\ Failed(busLog) => Len(ReadRegs(busLog)) <= n

\* C17 (as stated): the bus discipline above, with 14 reads in a successful
\* transaction.
C17_FourteenReadTransaction == BusDiscipline(14)

\* C17 (amended): the bus discipline above, with 16 reads in a successful
\* transaction and a prefix of them in a failed one.
C17_SixteenReadTransaction == BusDiscipline(16)

\* a transaction that failed at the read of register 29
C17_Witness ==
  /\ Failed(busLog) /\ Len(busLog) = 11
  /\ busLog[11].op = "read" /\ busLog[11].reg = 29

\* C18: pause_every(interval, position(m, s)) never ends and every request
\* for the next position is answered: the generator is never finished, both
\* ranges of position() are non-empty, and the loop that keeps asking gets as
\* many positions as the model allows.
C18_NeverEnds ==
  /\ [](pause # None =>
          /\ ~TheValue(pause).done
          /\ Len(TheValue(gen).forwards) > 0
          /\ Len(TheValue(gen).backwards) > 0)
  /\ (pause # None) ~> (Len(posEmitted) = MaxEmit /\ TheValue(pause).left = 0)

\* the sequence is on its third sweep or later and still running
C18_Witness ==
  /\ pause # None /\ ~TheValue(pause).done
  /\ Len(posEmitted) = MaxEmit
  /\ Cardinality({k \in 1..Len(posEmitted) : posEmitted[k] = 0}) >= 3

\* C19: a failed transaction leaves the cache timestamp as it was, so a call
\* made after a failed call with a cached record (one that was 1.5 s old or
\* older, or the failed call would not have gone to the bus) attempts a bus
\* transaction again, however soon it is made.
C19_NoBackoff ==
  /\ [][ (IsCall /\ Failed(busLog')) => _ups_cache_time' = _ups_cache_time ]_vars
  /\ [][ (IsCall /\ SMBUS_AVAILABLE /\ _ups_cache # None /\ Failed(busLog))
           => (busLog' # <<>> /\ busLog'[1].op = "open") ]_vars

\* the record of the first call turned 1.5 s old and the two calls made at
\* that same instant both went to the bus and failed
C19_Witness ==
  /\ calls = 3 /\ _ups_cache # None /\ TheValue(_ups_cache).id = 1
  /\ now - _ups_cache_time = 3
  /\ Failed(busLog) /\ openConns = 2

Abs(x) == IF x < 0 THEN -x ELSE x

\* C20: two consecutive values of position(m, s) are never equal and differ by
\* at most s, the turnarounds included; consecutive values of the dwell
\* wrapper differ by 0 or by at most s.
C20_OneStepPerFrame ==
  gen # None =>
    LET s == TheValue(gen).step IN
    /\ \A k \in 1..(Len(posEmitted) - 1) :
         /\ posEmitted[k] # posEmitted[k + 1]
         /\ Abs(posEmitted[k + 1] - posEmitted[k]) <= s
    /\ \A k \in 1..(Len(out) - 1) :
         out[k + 1] = out[k] \/ Abs(out[k + 1] - out[k]) <= s

\* both turnarounds were passed with a step that does not divide the extent
C20_Witness ==
  /\ gen # None
  /\ TheValue(gen).step > 1
  /\ TheValue(gen).max % TheValue(gen).step # 0
  /\ \E i, j \in 1..(Len(posEmitted) - 1) :
       /\ i < j
       /\ posEmitted[i + 1] = TheValue(gen).max
       /\ posEmitted[j + 1] = 0
       /\ Abs(posEmitted[j + 1] - posEmitted[j]) < TheValue(gen).step

====
